---- MODULE Spec2Model ----
(***************************************************************************)
(* Model of gows (src/main.go): a ticker cache filled by one websocket     *)
(* streaming goroutine and read by HTTP handler goroutines.                *)
(*                                                                         *)
(* Go slices are modelled as functions over 0..n-1, Go maps as functions   *)
(* over their key set, a sync.Mutex as the id of the context holding it.   *)
(***************************************************************************)
EXTENDS Integers, Sequences, FiniteSets, TLC

\* ------------------------------------------------------------------ bounds
\* number of inbound messages the streaming goroutine reads in one run
MaxMsgs == 2
\* number of concurrent HTTP handler goroutines
NumReaders == 1

\* ------------------------------------------------------- values and inputs
ETHBTC == "ETHBTC"
BTCUSD == "BTCUSD"
\* a symbol the feed may name but the configuration never registers
XXXYYY == "XXXYYY"

\* lists DCHOWELLER_CRYPTO_SYMBOLS can hold: empty, one symbol, a duplicate
\* (the default list below is the case of two distinct symbols)
ConfiguredLists == { <<>>, <<ETHBTC>>, <<ETHBTC, ETHBTC>> }

\* what envconfig.Process can do: fail (variable unset), or fill
\* appConf.Symbols with the parsed list
EnvOutcomes ==
    { [ err |-> TRUE, Symbols |-> <<>> ] } \cup
    { [ err |-> FALSE, Symbols |-> l ] : l \in ConfiguredLists }

DefaultSymbols == <<BTCUSD, ETHBTC>>

\* the upstream's answers to getSymbol / getCurrency (external collaborator)
BaseCurrencyOf(symbol) == IF symbol = ETHBTC THEN "ETH" ELSE "BTC"
FeeCurrencyOf(symbol) == IF symbol = ETHBTC THEN "BTC" ELSE "USD"
FullNameOf(currency) == IF currency = "ETH" THEN "Ethereum" ELSE "Bitcoin"

\* Go zero value of currencyInfo
ZeroCurrencyInfo ==
    [ ID |-> "", FullName |-> "", Ask |-> "", Bid |-> "", Last |-> "",
      Open |-> "", Low |-> "", High |-> "", FeeCurrency |-> "" ]

QuoteFields == { "Ask", "Bid", "Last", "Open", "Low", "High" }
StaticFields == { "ID", "FullName", "FeeCurrency" }

\* the six quote strings of a record or of a decoded update
QuoteOf(rec) == [ f \in QuoteFields |-> rec[f] ]
StaticOf(rec) == [ f \in StaticFields |-> rec[f] ]

ZeroQuote == [ f \in QuoteFields |-> "" ]

\* two ticker payloads (the sample values of the README)
QuoteA ==
    [ Ask |-> "0.054464", Bid |-> "0.054463", Last |-> "0.054463",
      Open |-> "0.057133", Low |-> "0.053615", High |-> "0.057559" ]
QuoteB ==
    [ Ask |-> "7906.72", Bid |-> "7906.28", Last |-> "7906.48",
      Open |-> "7952.3", Low |-> "7561.51", High |-> "8107.96" ]

Quotes == { QuoteA, QuoteB }

\* Go zero value of tickerUpdate (only the fields the program reads)
ZeroTickerUpdate ==
    [ Symbol |-> "", Ask |-> "", Bid |-> "", Last |-> "",
      Open |-> "", Low |-> "", High |-> "" ]

TickerUpdateOf(symbol, q) ==
    [ Symbol |-> symbol, Ask |-> q.Ask, Bid |-> q.Bid, Last |-> q.Last,
      Open |-> q.Open, Low |-> q.Low, High |-> q.High ]

\* inbound websocket messages: a ticker notification, a JSON-RPC reply
\* without params (the answer to subscribeTicker), bytes that are not JSON
InboundMessages ==
    { [ json |-> "ticker", symbol |-> ETHBTC, quote |-> q ] : q \in Quotes }
    \cup { [ json |-> "ticker", symbol |-> BTCUSD, quote |-> QuoteB ],
           [ json |-> "ticker", symbol |-> XXXYYY, quote |-> QuoteA ],
           [ json |-> "reply", symbol |-> "", quote |-> ZeroQuote ],
           [ json |-> "garbage", symbol |-> "", quote |-> ZeroQuote ] }

NoMessage == [ json |-> "none", symbol |-> "", quote |-> ZeroQuote ]

\* json.Unmarshal(message, &tu): error on bytes that are not JSON; absent
\* members leave the zero value
UnmarshalOk(msg) == msg.json # "garbage"
UnmarshalTickerUpdate(msg) ==
    IF msg.json = "ticker" THEN TickerUpdateOf(msg.symbol, msg.quote)
    ELSE ZeroTickerUpdate

\* ids of execution contexts, used as mutex holders
Free == -1
StreamCtx == 0
Readers == 1..NumReaders

VARIABLES
    proc,             \* "running", or how the process ended (see Terminate)
    mainpc,           \* position of main
    appConf,          \* appConf.Symbols
    currencies,       \* []currencyInfo
    currencyInfoLock, \* []sync.Mutex: holder of each mutex
    symbolToIndex,    \* map[string]int
    connReadErr,      \* the connection's read side has failed (sticky)
    connWriteErr,     \* the connection's write side has failed (sticky)
    configErr,        \* doConfig's err: envconfig.Process failed
    initI,            \* loop index of initializeCurrencyInfo
    initStep,         \* "getSymbol" or "getCurrency"
    initResult,       \* value returned by initializeCurrencyInfo
    subscribed,       \* subscribeTicker commands sent so far (loop index)
    streampc,         \* position of the streaming goroutine
    message,          \* message read by the streaming goroutine
    tu,               \* decoded tickerUpdate
    currencyIndex,    \* setCurrencyInfo's local currencyIndex
    msgCount,         \* messages read so far
    rpc,              \* position of each HTTP handler
    rsymbol,          \* mux.Vars(r)["symbol"] of each handler
    rindex,           \* handler local: currencyIndex / loop index i
    result,           \* getAllCurrencies local result
    response,         \* what the handler wrote to w
    applied,          \* history: per slot, the quote sets setCurrencyInfo started to write
    storeHist,        \* history: every value currencies had so far
    keepHist,         \* whether storeHist is being recorded in this run
    lastApplied,      \* history: per slot, the quote set of the last completed setCurrencyInfo
    lastEvent         \* history: per registered symbol, the quote set of the last update received

vars == << proc, mainpc, appConf, configErr, currencies, currencyInfoLock, symbolToIndex,
           connReadErr, connWriteErr, initI, initStep, initResult, subscribed,
           streampc, message, tu, currencyIndex, msgCount,
           rpc, rsymbol, rindex, result, response, applied, storeHist, keepHist,
           lastApplied, lastEvent >>

mainVars == << mainpc, appConf, configErr, symbolToIndex, connReadErr, connWriteErr,
               initI, initStep, initResult, subscribed >>
streamVars == << streampc, message, tu, currencyIndex, msgCount >>
readerVars == << rpc, rsymbol, rindex, result, response >>
histVars == << applied, storeHist, keepHist, lastApplied, lastEvent >>

NumSlots == Len(appConf)
Slots == 0 .. (NumSlots - 1)
SymbolAt(i) == appConf[i + 1]

NoResponse == [ kind |-> "none" ]

\* currencies has a new value: remember it
Remember ==
    storeHist' = IF keepHist THEN storeHist \cup { currencies' } ELSE storeHist

InitProgram ==
    /\ proc = "running"
    /\ mainpc = "doConfig"
    /\ appConf = <<>>
    /\ currencies = <<>>
    /\ currencyInfoLock = <<>>
    /\ symbolToIndex = <<>>
    /\ connReadErr = FALSE
    /\ connWriteErr = FALSE
    /\ configErr = FALSE
    /\ initI = 0
    /\ initStep = "getSymbol"
    /\ initResult = "pending"
    /\ subscribed = 0
    /\ streampc = "notstarted"
    /\ message = NoMessage
    /\ tu = ZeroTickerUpdate
    /\ currencyIndex = 0
    /\ msgCount = 0
    /\ rpc = [ r \in Readers |-> "idle" ]
    /\ rsymbol = [ r \in Readers |-> "" ]
    /\ rindex = [ r \in Readers |-> 0 ]
    /\ result = [ r \in Readers |-> <<>> ]
    /\ response = [ r \in Readers |-> NoResponse ]
    /\ applied = <<>>
    /\ storeHist = {}
    /\ lastApplied = <<>>
    /\ lastEvent = <<>>

Init == InitProgram /\ keepHist = FALSE
InitHist == InitProgram /\ keepHist = TRUE

\* the process ends (main returns, log.Fatal, or a panic): its memory is gone
Terminate(how) ==
    /\ proc' = how
    /\ mainpc' = "doConfig"
    /\ appConf' = <<>>
    /\ currencies' = <<>>
    /\ currencyInfoLock' = <<>>
    /\ symbolToIndex' = <<>>
    /\ connReadErr' = FALSE
    /\ connWriteErr' = FALSE
    /\ configErr' = FALSE
    /\ initI' = 0
    /\ initStep' = "getSymbol"
    /\ initResult' = "pending"
    /\ subscribed' = 0
    /\ streampc' = "notstarted"
    /\ message' = NoMessage
    /\ tu' = ZeroTickerUpdate
    /\ currencyIndex' = 0
    /\ msgCount' = 0
    /\ rpc' = [ r \in Readers |-> "idle" ]
    /\ rsymbol' = [ r \in Readers |-> "" ]
    /\ rindex' = [ r \in Readers |-> 0 ]
    /\ result' = [ r \in Readers |-> <<>> ]
    /\ response' = [ r \in Readers |-> NoResponse ]
    /\ applied' = <<>>
    /\ storeHist' = {}
    /\ keepHist' = keepHist
    /\ lastApplied' = <<>>
    /\ lastEvent' = <<>>


\* ------------------------------------------------------------- doConfig
\* the loop "symbolToIndex[Symbols[i]] = i": a later position overwrites
RECURSIVE BuildSymbolToIndex(_, _)
BuildSymbolToIndex(symbols, n) ==
    IF n = 0 THEN <<>>
    ELSE LET m == BuildSymbolToIndex(symbols, n - 1)
             s == symbols[n]
         IN  [ k \in (DOMAIN m) \cup { s } |-> IF k = s THEN n - 1 ELSE m[k] ]

DoConfig ==
    /\ proc = "running"
    /\ mainpc = "doConfig"
    /\ \E env \in EnvOutcomes :
         LET symbols == IF env.err THEN DefaultSymbols ELSE env.Symbols
         IN  /\ appConf' = symbols
             /\ configErr' = env.err
             /\ currencies' = [ i \in 0 .. (Len(symbols) - 1) |-> ZeroCurrencyInfo ]
             /\ currencyInfoLock' = [ i \in 0 .. (Len(symbols) - 1) |-> Free ]
             /\ symbolToIndex' = BuildSymbolToIndex(symbols, Len(symbols))
             /\ applied' = [ i \in 0 .. (Len(symbols) - 1) |-> { ZeroQuote } ]
             /\ Remember
             /\ lastApplied' = [ i \in 0 .. (Len(symbols) - 1) |-> ZeroQuote ]
             /\ lastEvent' = [ k \in DOMAIN symbolToIndex' |-> ZeroQuote ]
    /\ mainpc' = "connect"
    /\ UNCHANGED << proc, connReadErr, connWriteErr, initI, initStep, initResult,
                    subscribed, streamVars, readerVars, keepHist >>

\* a Go map read "m[k]" yields the zero value 0 for an absent key
MapIndex(m, k) == IF k \in DOMAIN m THEN m[k] ELSE 0
\* the comma-ok form "v, ok := m[k]"
MapHas(m, k) == k \in DOMAIN m

\* ------------------------------------------------------------ connectToAPI
\* variant: the streaming goroutine is started as soon as the dial succeeds
ConnectToAPISpawning ==
    /\ proc = "running"
    /\ mainpc = "connect"
    /\ \E dialOk \in BOOLEAN :
         IF dialOk
         THEN /\ mainpc' = "init"
              /\ streampc' = "read"
              /\ UNCHANGED << proc, appConf, configErr, currencies, currencyInfoLock,
                              symbolToIndex, connReadErr, connWriteErr, initI,
                              initStep, initResult, subscribed, message, tu,
                              currencyIndex, msgCount, readerVars, histVars >>
         ELSE Terminate("fatal_dial")

ConnectToAPI ==
    /\ proc = "running"
    /\ mainpc = "connect"
    /\ \E dialOk \in BOOLEAN :
         IF dialOk
         THEN /\ mainpc' = "init"
              /\ UNCHANGED << proc, appConf, configErr, currencies, currencyInfoLock,
                              symbolToIndex, connReadErr, connWriteErr, initI,
                              initStep, initResult, subscribed, streamVars,
                              readerVars, histVars >>
         ELSE \* log.Fatal("dial:", err)
              Terminate("fatal_dial")

\* ------------------------------------------------- initializeCurrencyInfo
\* outcomes of one write-then-read exchange (getSymbol, getCurrency)
ExchangeOutcomes == { "ok", "write", "read", "decode" }

\* main discards the value initializeCurrencyInfo returns and goes on
InitFail(outcome) ==
    /\ initResult' = "error"
    /\ mainpc' = "spawn"
    /\ connWriteErr' = (outcome = "write")
    /\ connReadErr' = (outcome = "read")
    /\ UNCHANGED << currencies, storeHist, initI, initStep >>

\* variant: the two fields of the getSymbol reply are stored crosswise
InitGetSymbolSwapped ==
    /\ proc = "running"
    /\ mainpc = "init"
    /\ initStep = "getSymbol"
    /\ initI < NumSlots
    /\ \E outcome \in ExchangeOutcomes :
         IF outcome = "ok"
         THEN /\ currencies' =
                   [ currencies EXCEPT
                       ![initI].FeeCurrency = BaseCurrencyOf(SymbolAt(initI)),
                       ![initI].ID = FeeCurrencyOf(SymbolAt(initI)) ]
              /\ Remember
              /\ initStep' = "getCurrency"
              /\ UNCHANGED << initI, initResult, mainpc, connReadErr, connWriteErr >>
         ELSE InitFail(outcome)
    /\ UNCHANGED << proc, appConf, configErr, currencyInfoLock, symbolToIndex, subscribed,
                    streamVars, readerVars, applied, keepHist, lastApplied,
                    lastEvent >>

InitGetSymbol ==
    /\ proc = "running"
    /\ mainpc = "init"
    /\ initStep = "getSymbol"
    /\ initI < NumSlots
    /\ \E outcome \in ExchangeOutcomes :
         IF outcome = "ok"
         THEN /\ currencies' =
                   [ currencies EXCEPT
                       ![initI].FeeCurrency = FeeCurrencyOf(SymbolAt(initI)),
                       ![initI].ID = BaseCurrencyOf(SymbolAt(initI)) ]
              /\ Remember
              /\ initStep' = "getCurrency"
              /\ UNCHANGED << initI, initResult, mainpc, connReadErr, connWriteErr >>
         ELSE InitFail(outcome)
    /\ UNCHANGED << proc, appConf, configErr, currencyInfoLock, symbolToIndex, subscribed,
                    streamVars, readerVars, applied, keepHist, lastApplied,
                    lastEvent >>

InitGetCurrency ==
    /\ proc = "running"
    /\ mainpc = "init"
    /\ initStep = "getCurrency"
    /\ initI < NumSlots
    /\ \E outcome \in ExchangeOutcomes :
         IF outcome = "ok"
         THEN /\ currencies' =
                   [ currencies EXCEPT
                       ![initI].FullName = FullNameOf(currencies[initI].ID) ]
              /\ Remember
              /\ initStep' = "getSymbol"
              /\ initI' = initI + 1
              /\ UNCHANGED << initResult, mainpc, connReadErr, connWriteErr >>
         ELSE InitFail(outcome)
    /\ UNCHANGED << proc, appConf, configErr, currencyInfoLock, symbolToIndex, subscribed,
                    streamVars, readerVars, applied, keepHist, lastApplied,
                    lastEvent >>

\* the loop is over: return nil
InitReturn ==
    /\ proc = "running"
    /\ mainpc = "init"
    /\ initI = NumSlots
    /\ initResult' = "nil"
    /\ mainpc' = "spawn"
    /\ UNCHANGED << proc, appConf, configErr, currencies, currencyInfoLock, symbolToIndex,
                    connReadErr, connWriteErr, initI, initStep, subscribed,
                    streamVars, readerVars, histVars >>

\* ------------------------------------------------------------------- main
\* "go func() { for { ... } }()"
SpawnStream ==
    /\ proc = "running"
    /\ mainpc = "spawn"
    /\ streampc' = "read"
    /\ mainpc' = "subscribe"
    /\ UNCHANGED << proc, appConf, configErr, currencies, currencyInfoLock, symbolToIndex,
                    connReadErr, connWriteErr, initI, initStep, initResult,
                    subscribed, message, tu, currencyIndex, msgCount,
                    readerVars, histVars >>

\* one iteration of the subscribeToTicker loop
SubscribeToTicker ==
    /\ proc = "running"
    /\ mainpc = "subscribe"
    /\ subscribed < NumSlots
    /\ \E writeOk \in BOOLEAN :
         /\ (connWriteErr => ~writeOk)
         /\ IF writeOk
            THEN /\ subscribed' = subscribed + 1
                 /\ UNCHANGED << proc, connWriteErr, mainpc, appConf, configErr, currencies,
                                 currencyInfoLock, symbolToIndex, connReadErr,
                                 initI, initStep, initResult, streamVars,
                                 readerVars, histVars >>
            ELSE \* log.Println("write:", err); return
                 Terminate("return_write")

\* "go func() { log.Fatal(server.ListenAndServe()) }()"
ListenAndServe ==
    /\ proc = "running"
    /\ mainpc = "subscribe"
    /\ subscribed = NumSlots
    /\ \E listenOk \in BOOLEAN :
         IF listenOk
         THEN /\ mainpc' = "wait"
              /\ UNCHANGED << proc, appConf, configErr, currencies, currencyInfoLock,
                              symbolToIndex, connReadErr, connWriteErr, initI,
                              initStep, initResult, subscribed, streamVars,
                              readerVars, histVars >>
         ELSE Terminate("fatal_listen")

\* "<-interrupt", server.Shutdown, return
Interrupt ==
    /\ proc = "running"
    /\ mainpc = "wait"
    /\ Terminate("interrupted")

\* the HTTP server accepts queries
Serving == proc = "running" /\ mainpc = "wait"

\* ------------------------------------------------- streaming goroutine
\* "_, message, err := c.ReadMessage()": a transport error ends the loop
\* variant: the read error is logged and the loop goes on with the message
StreamReadIgnoringErr ==
    /\ proc = "running"
    /\ streampc = "read"
    /\ \/ /\ ~connReadErr
          /\ msgCount < MaxMsgs
          /\ \E msg \in InboundMessages : message' = msg
          /\ msgCount' = msgCount + 1
          /\ streampc' = "decode"
          /\ UNCHANGED connReadErr
       \/ /\ connReadErr' = TRUE
          /\ streampc' = "decode"
          /\ UNCHANGED << message, msgCount >>
    /\ UNCHANGED << proc, mainpc, appConf, configErr, currencies, currencyInfoLock,
                    symbolToIndex, connWriteErr, initI, initStep, initResult,
                    subscribed, tu, currencyIndex, readerVars, histVars >>

StreamRead ==
    /\ proc = "running"
    /\ streampc = "read"
    /\ \/ /\ ~connReadErr
          /\ msgCount < MaxMsgs
          /\ \E msg \in InboundMessages : message' = msg
          /\ msgCount' = msgCount + 1
          /\ streampc' = "decode"
          /\ UNCHANGED connReadErr
       \/ \* log.Println("read:", err); return
          /\ connReadErr' = TRUE
          /\ streampc' = "returned"
          /\ UNCHANGED << message, msgCount >>
    /\ UNCHANGED << proc, mainpc, appConf, configErr, currencies, currencyInfoLock,
                    symbolToIndex, connWriteErr, initI, initStep, initResult,
                    subscribed, tu, currencyIndex, readerVars, histVars >>

\* variant: the lookup inserts an absent key with the zero value
StreamDecodeInserting ==
    /\ streampc = "decode"
    /\ proc = "running"
    /\ IF UnmarshalOk(message)
       THEN /\ tu' = UnmarshalTickerUpdate(message)
            /\ message' = NoMessage
            /\ currencyIndex' = MapIndex(symbolToIndex, tu'.Symbol)
            /\ symbolToIndex' =
                 [ k \in (DOMAIN symbolToIndex) \cup { tu'.Symbol } |->
                     MapIndex(symbolToIndex, k) ]
            /\ streampc' = "lock"
            /\ lastEvent' =
                 IF MapHas(symbolToIndex, tu'.Symbol)
                 THEN [ lastEvent EXCEPT ![tu'.Symbol] = QuoteOf(tu') ]
                 ELSE lastEvent
            /\ UNCHANGED << proc, mainpc, appConf, configErr, connReadErr, connWriteErr,
                            initI, initStep, initResult, subscribed, currencies,
                            currencyInfoLock, msgCount, readerVars, applied,
                            storeHist, keepHist, lastApplied >>
       ELSE Terminate("panic_unmarshal")

\* "if err = json.Unmarshal(message, &tu); err != nil { panic(err) }", then
\* setCurrencyInfo(&tu) begins: "currencyIndex := symbolToIndex[tu.Params.Symbol]"
StreamDecode ==
    /\ streampc = "decode"
    /\ proc = "running"
    /\ IF UnmarshalOk(message)
       THEN /\ tu' = UnmarshalTickerUpdate(message)
            /\ message' = NoMessage
            /\ currencyIndex' = MapIndex(symbolToIndex, tu'.Symbol)
            /\ streampc' = "lock"
            /\ lastEvent' =
                 IF MapHas(symbolToIndex, tu'.Symbol)
                 THEN [ lastEvent EXCEPT ![tu'.Symbol] = QuoteOf(tu') ]
                 ELSE lastEvent
            /\ UNCHANGED << proc, mainVars, currencies, currencyInfoLock,
                            msgCount, readerVars, applied, storeHist, keepHist,
                            lastApplied >>
       ELSE Terminate("panic_unmarshal")

\* ---------------------------------------------------------- setCurrencyInfo
\* variant: one lock for the whole store, taken when no slot is locked
SetLockGlobal ==
    /\ proc = "running"
    /\ streampc = "lock"
    /\ IF currencyIndex \in Slots
       THEN /\ \A i \in Slots : currencyInfoLock[i] = Free
            /\ currencyInfoLock' = [ currencyInfoLock EXCEPT ![currencyIndex] = StreamCtx ]
            /\ applied' = [ applied EXCEPT ![currencyIndex] = @ \cup { QuoteOf(tu) } ]
            /\ streampc' = "Ask"
            /\ UNCHANGED << proc, mainVars, currencies, message, tu, currencyIndex,
                            msgCount, readerVars, storeHist, keepHist, lastApplied,
                            lastEvent >>
       ELSE Terminate("panic_index")

\* "currencyInfoLock[currencyIndex].Lock()"; indexing an empty slice panics
SetLock ==
    /\ proc = "running"
    /\ streampc = "lock"
    /\ IF currencyIndex \in Slots
       THEN /\ currencyInfoLock[currencyIndex] = Free
            /\ currencyInfoLock' = [ currencyInfoLock EXCEPT ![currencyIndex] = StreamCtx ]
            /\ applied' = [ applied EXCEPT ![currencyIndex] = @ \cup { QuoteOf(tu) } ]
            /\ streampc' = "Ask"
            /\ UNCHANGED << proc, mainVars, currencies, message, tu, currencyIndex,
                            msgCount, readerVars, storeHist, keepHist, lastApplied,
                    lastEvent >>
       ELSE Terminate("panic_index")

\* variant: every quote field is assigned from tu.Params.Ask
SetFieldFromAsk(field, nextpc) ==
    /\ proc = "running"
    /\ streampc = field
    /\ currencies' = [ currencies EXCEPT ![currencyIndex][field] = tu.Ask ]
    /\ Remember
    /\ streampc' = nextpc
    /\ UNCHANGED << proc, mainVars, currencyInfoLock, message, tu, currencyIndex,
                    msgCount, readerVars, applied, keepHist, lastApplied,
                    lastEvent >>

\* "currencies[currencyIndex].<field> = tu.Params.<field>"
SetField(field, nextpc) ==
    /\ proc = "running"
    /\ streampc = field
    /\ currencies' = [ currencies EXCEPT ![currencyIndex][field] = tu[field] ]
    /\ Remember
    /\ streampc' = nextpc
    /\ UNCHANGED << proc, mainVars, currencyInfoLock, message, tu, currencyIndex,
                    msgCount, readerVars, applied, keepHist, lastApplied,
                    lastEvent >>

SetAsk == SetField("Ask", "Bid")
SetBid == SetField("Bid", "Last")
SetLast == SetField("Last", "Open")
SetOpen == SetField("Open", "Low")
SetLow == SetField("Low", "High")
SetHigh == SetField("High", "unlock")

\* variant: setCurrencyInfo returns without the Unlock()
SetUnlockMissing ==
    /\ proc = "running"
    /\ streampc = "unlock"
    /\ lastApplied' = [ lastApplied EXCEPT ![currencyIndex] = QuoteOf(tu) ]
    /\ streampc' = "read"
    /\ tu' = ZeroTickerUpdate
    /\ currencyIndex' = 0
    /\ UNCHANGED << proc, mainVars, currencies, currencyInfoLock, message,
                    msgCount, readerVars, applied, storeHist, keepHist,
                    lastEvent >>

\* "currencyInfoLock[currencyIndex].Unlock()", back to the top of the loop
SetUnlock ==
    /\ proc = "running"
    /\ streampc = "unlock"
    /\ currencyInfoLock' = [ currencyInfoLock EXCEPT ![currencyIndex] = Free ]
    /\ lastApplied' = [ lastApplied EXCEPT ![currencyIndex] = QuoteOf(tu) ]
    /\ streampc' = "read"
    /\ tu' = ZeroTickerUpdate
    /\ currencyIndex' = 0
    /\ UNCHANGED << proc, mainVars, currencies, message, msgCount, readerVars,
                    applied, storeHist, keepHist, lastEvent >>

\* -------------------------------------------------------- getSingleCurrency
\* symbols a query may name
QuerySymbols == { ETHBTC, BTCUSD, XXXYYY }

UnsupportedResponse(symbol) ==
    [ kind |-> "unsupported", symbol |-> symbol, list |-> appConf ]

\* variant: the handler does not test ok and uses the index the map yields
GetSingleLookupNoOk(r) ==
    /\ Serving
    /\ rpc[r] = "idle"
    /\ \E symbol \in QuerySymbols :
         /\ rsymbol' = [ rsymbol EXCEPT ![r] = symbol ]
         /\ rindex' = [ rindex EXCEPT ![r] = MapIndex(symbolToIndex, symbol) ]
         /\ rpc' = [ rpc EXCEPT ![r] = "lock" ]
         /\ UNCHANGED response
    /\ UNCHANGED << proc, mainVars, currencies, currencyInfoLock, streamVars,
                    result, histVars >>

\* a request arrives; "currencyIndex, ok := symbolToIndex[symbol]";
\* if !ok the handler writes the list of symbols and returns
GetSingleLookup(r) ==
    /\ Serving
    /\ rpc[r] = "idle"
    /\ \E symbol \in QuerySymbols :
         /\ rsymbol' = [ rsymbol EXCEPT ![r] = symbol ]
         /\ IF MapHas(symbolToIndex, symbol)
            THEN /\ rindex' = [ rindex EXCEPT ![r] = symbolToIndex[symbol] ]
                 /\ rpc' = [ rpc EXCEPT ![r] = "lock" ]
                 /\ UNCHANGED response
            ELSE /\ response' = [ response EXCEPT ![r] = UnsupportedResponse(symbol) ]
                 /\ rpc' = [ rpc EXCEPT ![r] = "return" ]
                 /\ UNCHANGED rindex
    /\ UNCHANGED << proc, mainVars, currencies, currencyInfoLock, streamVars,
                    result, histVars >>

\* variant: the handler goes on without waiting for the mutex
GetSingleLockNoWait(r) ==
    /\ proc = "running"
    /\ rpc[r] = "lock"
    /\ rpc' = [ rpc EXCEPT ![r] = "encode" ]
    /\ UNCHANGED << proc, mainVars, currencies, currencyInfoLock, streamVars,
                    rsymbol, rindex, result, response, histVars >>

\* "currencyInfoLock[currencyIndex].Lock()"
GetSingleLock(r) ==
    /\ proc = "running"
    /\ rpc[r] = "lock"
    /\ currencyInfoLock[rindex[r]] = Free
    /\ currencyInfoLock' = [ currencyInfoLock EXCEPT ![rindex[r]] = r ]
    /\ rpc' = [ rpc EXCEPT ![r] = "encode" ]
    /\ UNCHANGED << proc, mainVars, currencies, streamVars, rsymbol, rindex,
                    result, response, histVars >>

\* "json.NewEncoder(w).Encode(currencies[currencyIndex])"
GetSingleEncode(r) ==
    /\ proc = "running"
    /\ rpc[r] = "encode"
    /\ response' = [ response EXCEPT ![r] =
                       [ kind |-> "single", record |-> currencies[rindex[r]] ] ]
    /\ rpc' = [ rpc EXCEPT ![r] = "unlock" ]
    /\ UNCHANGED << proc, mainVars, currencies, currencyInfoLock, streamVars,
                    rsymbol, rindex, result, histVars >>

\* "currencyInfoLock[currencyIndex].Unlock()" and the handler returns
GetSingleUnlock(r) ==
    /\ proc = "running"
    /\ rpc[r] = "unlock"
    /\ currencyInfoLock' = [ currencyInfoLock EXCEPT ![rindex[r]] = Free ]
    /\ rpc' = [ rpc EXCEPT ![r] = "idle" ]
    /\ rsymbol' = [ rsymbol EXCEPT ![r] = "" ]
    /\ rindex' = [ rindex EXCEPT ![r] = 0 ]
    /\ response' = [ response EXCEPT ![r] = NoResponse ]
    /\ UNCHANGED << proc, mainVars, currencies, streamVars, result, histVars >>

\* the handler returns after writing its response: the locals are gone
HandlerReturn(r) ==
    /\ proc = "running"
    /\ rpc[r] = "return"
    /\ rpc' = [ rpc EXCEPT ![r] = "idle" ]
    /\ rsymbol' = [ rsymbol EXCEPT ![r] = "" ]
    /\ rindex' = [ rindex EXCEPT ![r] = 0 ]
    /\ result' = [ result EXCEPT ![r] = <<>> ]
    /\ response' = [ response EXCEPT ![r] = NoResponse ]
    /\ UNCHANGED << proc, mainVars, currencies, currencyInfoLock, streamVars,
                    histVars >>

\* --------------------------------------------------------- getAllCurrencies
\* variant: result is sized by the number of registered symbols
GetAllBeginByRegistry(r) ==
    /\ Serving
    /\ rpc[r] = "idle"
    /\ result' = [ result EXCEPT ![r] =
                     [ i \in 0 .. (Cardinality(DOMAIN symbolToIndex) - 1) |->
                         ZeroCurrencyInfo ] ]
    /\ rindex' = [ rindex EXCEPT ![r] = 0 ]
    /\ rpc' = [ rpc EXCEPT ![r] = "allLock" ]
    /\ UNCHANGED << proc, mainVars, currencies, currencyInfoLock, streamVars,
                    rsymbol, response, histVars >>

\* a request arrives; "result = make([]currencyInfo, numCurrencies)"
GetAllBegin(r) ==
    /\ Serving
    /\ rpc[r] = "idle"
    /\ result' = [ result EXCEPT ![r] = [ i \in DOMAIN currencies |-> ZeroCurrencyInfo ] ]
    /\ rindex' = [ rindex EXCEPT ![r] = 0 ]
    /\ rpc' = [ rpc EXCEPT ![r] = "allLock" ]
    /\ UNCHANGED << proc, mainVars, currencies, currencyInfoLock, streamVars,
                    rsymbol, response, histVars >>

\* variant: the loop copies without waiting for the mutex
GetAllLockNoWait(r) ==
    /\ proc = "running"
    /\ rpc[r] = "allLock"
    /\ rindex[r] \in DOMAIN currencies
    /\ rpc' = [ rpc EXCEPT ![r] = "allCopy" ]
    /\ UNCHANGED << proc, mainVars, currencies, currencyInfoLock, streamVars,
                    rsymbol, rindex, result, response, histVars >>

\* "currencyInfoLock[i].Lock()"
GetAllLock(r) ==
    /\ proc = "running"
    /\ rpc[r] = "allLock"
    /\ rindex[r] \in DOMAIN currencies
    /\ currencyInfoLock[rindex[r]] = Free
    /\ currencyInfoLock' = [ currencyInfoLock EXCEPT ![rindex[r]] = r ]
    /\ rpc' = [ rpc EXCEPT ![r] = "allCopy" ]
    /\ UNCHANGED << proc, mainVars, currencies, streamVars, rsymbol, rindex,
                    result, response, histVars >>

\* variant: every element is copied from slot 0
GetAllCopyFirst(r) ==
    /\ proc = "running"
    /\ rpc[r] = "allCopy"
    /\ result' = [ result EXCEPT ![r][rindex[r]] = currencies[0] ]
    /\ rpc' = [ rpc EXCEPT ![r] = "allUnlock" ]
    /\ UNCHANGED << proc, mainVars, currencies, currencyInfoLock, streamVars,
                    rsymbol, rindex, response, histVars >>

\* variant: the assignment is written the other way round
GetAllCopyReversed(r) ==
    /\ proc = "running"
    /\ rpc[r] = "allCopy"
    /\ currencies' = [ currencies EXCEPT ![rindex[r]] = result[r][rindex[r]] ]
    /\ Remember
    /\ rpc' = [ rpc EXCEPT ![r] = "allUnlock" ]
    /\ UNCHANGED << proc, mainVars, currencyInfoLock, streamVars, rsymbol,
                    rindex, result, response, applied, keepHist, lastApplied,
                    lastEvent >>

\* "result[i] = currencies[i]"
GetAllCopy(r) ==
    /\ proc = "running"
    /\ rpc[r] = "allCopy"
    /\ result' = [ result EXCEPT ![r][rindex[r]] = currencies[rindex[r]] ]
    /\ rpc' = [ rpc EXCEPT ![r] = "allUnlock" ]
    /\ UNCHANGED << proc, mainVars, currencies, currencyInfoLock, streamVars,
                    rsymbol, rindex, response, histVars >>

\* "currencyInfoLock[i].Unlock()", next i
\* variant: the Unlock is deferred to the end of the handler
GetAllUnlockDeferred(r) ==
    /\ proc = "running"
    /\ rpc[r] = "allUnlock"
    /\ rindex' = [ rindex EXCEPT ![r] = @ + 1 ]
    /\ rpc' = [ rpc EXCEPT ![r] = "allLock" ]
    /\ UNCHANGED << proc, mainVars, currencies, currencyInfoLock, streamVars,
                    rsymbol, result, response, histVars >>

GetAllUnlock(r) ==
    /\ proc = "running"
    /\ rpc[r] = "allUnlock"
    /\ currencyInfoLock' = [ currencyInfoLock EXCEPT ![rindex[r]] = Free ]
    /\ rindex' = [ rindex EXCEPT ![r] = @ + 1 ]
    /\ rpc' = [ rpc EXCEPT ![r] = "allLock" ]
    /\ UNCHANGED << proc, mainVars, currencies, streamVars, rsymbol,
                    result, response, histVars >>

\* the loop is over: "json.NewEncoder(w).Encode(resp)"
GetAllEncode(r) ==
    /\ proc = "running"
    /\ rpc[r] = "allLock"
    /\ rindex[r] \notin DOMAIN currencies
    /\ response' = [ response EXCEPT ![r] = [ kind |-> "all", currencies |-> result[r] ] ]
    /\ rpc' = [ rpc EXCEPT ![r] = "return" ]
    /\ UNCHANGED << proc, mainVars, currencies, currencyInfoLock, streamVars,
                    rsymbol, rindex, result, histVars >>

Next ==
    \/ DoConfig
    \/ ConnectToAPI
    \/ InitGetSymbol
    \/ InitGetCurrency
    \/ InitReturn
    \/ SpawnStream
    \/ SubscribeToTicker
    \/ ListenAndServe
    \/ Interrupt
    \/ StreamRead
    \/ StreamDecode
    \/ SetLock
    \/ SetAsk
    \/ SetBid
    \/ SetLast
    \/ SetOpen
    \/ SetLow
    \/ SetHigh
    \/ SetUnlock
    \/ \E r \in Readers : GetSingleLookup(r)
    \/ \E r \in Readers : GetSingleLock(r)
    \/ \E r \in Readers : GetSingleEncode(r)
    \/ \E r \in Readers : GetSingleUnlock(r)
    \/ \E r \in Readers : GetAllBegin(r)
    \/ \E r \in Readers : GetAllLock(r)
    \/ \E r \in Readers : GetAllCopy(r)
    \/ \E r \in Readers : GetAllUnlock(r)
    \/ \E r \in Readers : GetAllEncode(r)
    \/ \E r \in Readers : HandlerReturn(r)

Spec == Init /\ [][Next]_vars

\* the same program, with the history of currencies recorded
SpecHist == InitHist /\ [][Next]_vars

\* every step of the streaming goroutine after a message is read, and every
\* step of a handler after it has started, is eventually taken if it stays
\* enabled (the Go scheduler runs every runnable goroutine); reading a message
\* and the arrival of a query depend on the outside and are not forced
ContextFairness ==
    /\ WF_vars(StreamDecode)
    /\ WF_vars(SetLock)
    /\ WF_vars(SetAsk)
    /\ WF_vars(SetBid)
    /\ WF_vars(SetLast)
    /\ WF_vars(SetOpen)
    /\ WF_vars(SetLow)
    /\ WF_vars(SetHigh)
    /\ WF_vars(SetUnlock)
    /\ \A r \in Readers :
          /\ WF_vars(GetSingleLock(r))
          /\ WF_vars(GetSingleEncode(r))
          /\ WF_vars(GetSingleUnlock(r))
          /\ WF_vars(GetAllLock(r))
          /\ WF_vars(GetAllCopy(r))
          /\ WF_vars(GetAllUnlock(r))
          /\ WF_vars(GetAllEncode(r))
          /\ WF_vars(HandlerReturn(r))

\* the program under weak fairness of every context's steps
SpecLive == Init /\ [][Next]_vars /\ ContextFairness

\* sync.Mutex does not let a waiter starve: a goroutine blocked in Lock() on
\* a mutex that is released again and again eventually gets it
MutexHandoff ==
    /\ SF_vars(SetLock)
    /\ \A r \in Readers : SF_vars(GetSingleLock(r)) /\ SF_vars(GetAllLock(r))

\* ====================================================================
\* Properties
\* ====================================================================
WritePcs == { "Ask", "Bid", "Last", "Open", "Low", "High", "unlock" }

\* the static fields slot i has once initializeCurrencyInfo is over: the loop
\* resolved the slots before initI, and half of slot initI if getCurrency failed
StaticAfterInit(i) ==
    IF i < initI
    THEN [ ID |-> BaseCurrencyOf(SymbolAt(i)),
           FullName |-> FullNameOf(BaseCurrencyOf(SymbolAt(i))),
           FeeCurrency |-> FeeCurrencyOf(SymbolAt(i)) ]
    ELSE IF i = initI /\ initStep = "getCurrency"
    THEN [ ID |-> BaseCurrencyOf(SymbolAt(i)),
           FullName |-> "",
           FeeCurrency |-> FeeCurrencyOf(SymbolAt(i)) ]
    ELSE StaticOf(ZeroCurrencyInfo)

\* C1: the six quote fields of the record a single-symbol read returns are
\* those of one update setCurrencyInfo made to that slot (or the values the
\* slot had before any update), never a mixture of two updates
C1_ReadOneNeverTears ==
    \A r \in Readers :
        response[r].kind = "single" =>
            QuoteOf(response[r].record) \in applied[rindex[r]]

\* a read of a slot answered with the first update while the streaming
\* goroutine, holding the second update for that slot, waits for the mutex
C1_Witness ==
    \E r \in Readers :
        /\ initResult = "nil"
        /\ response[r].kind = "single"
        /\ QuoteOf(response[r].record) = QuoteA
        /\ streampc = "lock"
        /\ currencyIndex = rindex[r]
        /\ QuoteOf(tu) = QuoteB
        /\ currencyInfoLock[rindex[r]] = r

\* C5: while the handler of a single-symbol read holds its response, the six
\* quote fields of the record equal those of the last update setCurrencyInfo
\* completed on that slot, and the static fields are those initialization set
C5_ReadAfterWrite ==
    \A r \in Readers :
        response[r].kind = "single" =>
            /\ QuoteOf(response[r].record) = lastApplied[rindex[r]]
            /\ StaticOf(response[r].record) = StaticAfterInit(rindex[r])

\* a read of ETHBTC after the update QuoteA, with resolved static fields
C5_Witness ==
    \E r \in Readers :
        /\ initResult = "nil"
        /\ response[r].kind = "single"
        /\ rsymbol[r] = ETHBTC
        /\ lastApplied[rindex[r]] = QuoteA
        /\ response[r].record =
             [ ID |-> "ETH", FullName |-> "Ethereum", Ask |-> "0.054464",
               Bid |-> "0.054463", Last |-> "0.054463", Open |-> "0.057133",
               Low |-> "0.053615", High |-> "0.057559", FeeCurrency |-> "BTC" ]

\* elements of result that getAllCurrencies has copied so far
Copied(r) ==
    IF rpc[r] \in { "allLock", "allCopy" } THEN 0 .. (rindex[r] - 1)
    ELSE IF rpc[r] = "allUnlock" THEN 0 .. rindex[r]
    ELSE IF rpc[r] = "return" /\ response[r].kind = "all" THEN DOMAIN result[r]
    ELSE {}

\* C6: every element getAllCurrencies copies is the whole record its slot
\* holds at the instant of the copy, the slot then holding the last completed
\* update; so every copied element carries the six quote fields of one update
C6_ReadAllElementAtomic ==
    \A r \in Readers :
        /\ rpc[r] = "allUnlock" =>
             /\ result[r][rindex[r]] = currencies[rindex[r]]
             /\ QuoteOf(result[r][rindex[r]]) = lastApplied[rindex[r]]
        /\ \A i \in Copied(r) : QuoteOf(result[r][i]) \in applied[i]
        /\ response[r].kind = "all" => response[r].currencies = result[r]

\* a full read returned while the streaming goroutine is in the middle of
\* writing a slot the read has copied
C6_Witness ==
    \E r \in Readers :
        /\ initResult = "nil"
        /\ response[r].kind = "all"
        /\ NumSlots = 2
        /\ streampc \in { "Bid", "Last", "Open", "Low", "High" }
        /\ QuoteOf(response[r].currencies[currencyIndex]) # QuoteOf(tu)
        /\ QuoteOf(response[r].currencies[currencyIndex]) # ZeroQuote

\* no symbol is configured twice
NoDuplicate ==
    \A i, j \in Slots : SymbolAt(i) = SymbolAt(j) => i = j

\* C2: while the streaming goroutine handles an update whose symbol is not a
\* key of symbolToIndex, no step changes a record of currencies (stated for
\* a server that initialized without error and is serving)
C2_UnknownSymbolNoOp ==
    [][ ( /\ Serving
          /\ proc' = "running"
          /\ initResult = "nil"
          /\ NoDuplicate
          /\ streampc \in { "lock" } \cup WritePcs
          /\ tu.Symbol # ""
          /\ ~MapHas(symbolToIndex, tu.Symbol) )
        => currencies' = currencies ]_vars

\* the static fields of slot i are all resolved
Resolved(i) ==
    /\ currencies[i].ID = BaseCurrencyOf(SymbolAt(i))
    /\ currencies[i].FullName = FullNameOf(BaseCurrencyOf(SymbolAt(i)))
    /\ currencies[i].FeeCurrency = FeeCurrencyOf(SymbolAt(i))

\* C3: after a failed getSymbol or getCurrency exchange no subscribeTicker
\* command is sent, the streaming goroutine is not started and the server
\* does not serve; while the server serves, every slot is resolved
C3_StartupAllOrNothing ==
    /\ initResult = "error" =>
         /\ subscribed = 0
         /\ streampc = "notstarted"
         /\ ~Serving
    /\ Serving => \A i \in Slots : Resolved(i)

\* C4: when a message that does not decode follows an applied update, the
\* step that handles it leaves the process running (stated for a server that
\* initialized without error and is serving)
C4_MalformedDoesNotHalt ==
    [][ ( /\ Serving
          /\ initResult = "nil"
          /\ streampc = "decode"
          /\ ~UnmarshalOk(message)
          /\ \E i \in Slots : lastApplied[i] \in Quotes )
        => proc' # "panic_unmarshal" ]_vars

\* C7: a response of getAllCurrencies that equals no value currencies ever
\* had arises only with two slots or more, and each of its elements is the
\* record its slot held at some instant
C7_ReadAllWeaklyConsistent ==
    \A r \in Readers :
        ( response[r].kind = "all" /\ response[r].currencies \notin storeHist ) =>
            /\ NumSlots >= 2
            /\ \A i \in Slots :
                 \E h \in storeHist : h[i] = response[r].currencies[i]

\* a response pairing the old record of slot 0 with the new record of slot 1
\* although slot 0 was updated first: no value of currencies equals it
C7_Witness ==
    \E r \in Readers :
        /\ initResult = "nil"
        /\ keepHist
        /\ response[r].kind = "all"
        /\ response[r].currencies \notin storeHist
        /\ QuoteOf(response[r].currencies[0]) = ZeroQuote
        /\ QuoteOf(response[r].currencies[1]) = QuoteA
        /\ QuoteOf(currencies[0]) = QuoteB

\* C8 as stated: a response of getAllCurrencies has as many elements as
\* there are registered symbols, and element i is the record of the symbol
\* that symbolToIndex maps to i (stated for a server that initialized
\* without error)
C8_OnePerRegisteredSymbol ==
    \A r \in Readers :
        ( response[r].kind = "all" /\ initResult = "nil" ) =>
            /\ Cardinality(DOMAIN response[r].currencies)
                 = Cardinality(DOMAIN symbolToIndex)
            /\ \A i \in DOMAIN response[r].currencies :
                 \E s \in DOMAIN symbolToIndex :
                    /\ symbolToIndex[s] = i
                    /\ StaticOf(response[r].currencies[i]) = StaticAfterInit(i)

\* C8 amended: a response of getAllCurrencies has one element per position
\* of the configured list, element i being the record of slot i; for every
\* registered symbol s the element at symbolToIndex[s] is the record kept for
\* s, and when no symbol is configured twice the positions and the registered
\* symbols correspond one to one
C8_OnePerConfiguredPosition ==
    \A r \in Readers :
        response[r].kind = "all" =>
            /\ DOMAIN response[r].currencies = Slots
            /\ \A i \in Slots :
                 /\ StaticOf(response[r].currencies[i]) = StaticAfterInit(i)
                 /\ QuoteOf(response[r].currencies[i]) \in applied[i]
            /\ \A s \in DOMAIN symbolToIndex :
                 /\ symbolToIndex[s] \in Slots
                 /\ SymbolAt(symbolToIndex[s]) = s
            /\ NoDuplicate =>
                 /\ Cardinality(DOMAIN symbolToIndex) = NumSlots
                 /\ \A i \in Slots : symbolToIndex[SymbolAt(i)] = i

\* a response for the list <<BTCUSD, ETHBTC>> after an update of each symbol
C8_Witness ==
    \E r \in Readers :
        /\ initResult = "nil"
        /\ response[r].kind = "all"
        /\ appConf = <<BTCUSD, ETHBTC>>
        /\ response[r].currencies[0].ID = "BTC"
        /\ response[r].currencies[1].ID = "ETH"
        /\ QuoteOf(response[r].currencies[0]) = QuoteB
        /\ QuoteOf(response[r].currencies[1]) = QuoteA

\* C9: a query for a symbol that is no key of symbolToIndex is answered with
\* the list of supported symbols: the step changes no record, no mutex and no
\* mapping, the handler holds no mutex while it answers, and when it returns
\* the process is running and the server takes the next query
C9_UnknownQueryNotFound ==
    /\ [] ( \A r \in Readers :
              response[r].kind = "unsupported" =>
                /\ proc = "running"
                /\ rpc[r] = "return"
                /\ ~MapHas(symbolToIndex, rsymbol[r])
                /\ \A i \in Slots : currencyInfoLock[i] # r )
    /\ [][ \A r \in Readers :
             ( /\ rpc[r] = "idle"
               /\ rsymbol'[r] # ""
               /\ ~MapHas(symbolToIndex, rsymbol'[r]) )
             => /\ response'[r].kind = "unsupported"
                /\ UNCHANGED << proc, currencies, currencyInfoLock, symbolToIndex >> ]_vars
    /\ [][ \A r \in Readers :
             ( /\ response[r].kind = "unsupported"
               /\ rpc'[r] # rpc[r]
               /\ proc' = "running" )
             => ( rpc'[r] = "idle" /\ Serving' ) ]_vars

\* a query for XXXYYY being answered while the store holds an update
C9_Witness ==
    \E r \in Readers :
        /\ initResult = "nil"
        /\ response[r] = UnsupportedResponse(XXXYYY)
        /\ Serving
        /\ \E i \in Slots : QuoteOf(currencies[i]) = QuoteA

\* C10: once doConfig has built symbolToIndex no step of the running process
\* changes it, and every configured symbol is mapped to a position holding it
C10_RegistryImmutable ==
    /\ [][ ( mainpc # "doConfig" /\ proc = "running" /\ proc' = "running" )
           => symbolToIndex' = symbolToIndex ]_vars
    /\ [] ( ( mainpc # "doConfig" /\ proc = "running" ) =>
              \A i \in Slots :
                 /\ MapHas(symbolToIndex, SymbolAt(i))
                 /\ SymbolAt(symbolToIndex[SymbolAt(i)]) = SymbolAt(i) )

\* the streaming goroutine writes for the unknown symbol XXXYYY while a
\* handler answers a query for an unknown symbol: the registry still holds
\* exactly the two configured symbols
C10_Witness ==
    /\ Serving
    /\ initResult = "nil"
    /\ streampc \in WritePcs
    /\ tu.Symbol = XXXYYY
    /\ \E r \in Readers : response[r].kind = "unsupported"
    /\ DOMAIN symbolToIndex = { BTCUSD, ETHBTC }
    /\ symbolToIndex[BTCUSD] = 0
    /\ symbolToIndex[ETHBTC] = 1

\* main is past initializeCurrencyInfo
InitOver == proc = "running" /\ mainpc \in { "spawn", "subscribe", "wait" }

FieldPcs == { "Ask", "Bid", "Last", "Open", "Low", "High" }

\* C11: once initializeCurrencyInfo is over, a step that changes currencies
\* is a field assignment of setCurrencyInfo: it changes one quote field of the
\* slot currencyIndex, no static field, no other slot and nothing a handler
\* owns; and every slot keeps the static fields initialization left
C11_SoleWriterFrame ==
    /\ [][ ( InitOver /\ proc' = "running" /\ currencies' # currencies ) =>
             /\ streampc \in FieldPcs
             /\ streampc' # streampc
             /\ currencyInfoLock[currencyIndex] = StreamCtx
             /\ \A i \in Slots :
                  /\ i # currencyIndex => currencies'[i] = currencies[i]
                  /\ StaticOf(currencies'[i]) = StaticOf(currencies[i])
                  /\ \A f \in QuoteFields \ { streampc } :
                       currencies'[i][f] = currencies[i][f]
             /\ UNCHANGED readerVars ]_vars
    /\ [] ( InitOver =>
              \A i \in Slots : StaticOf(currencies[i]) = StaticAfterInit(i) )

\* both slots hold an update, their static fields are the resolved ones and
\* a full read has been answered
C11_Witness ==
    \E r \in Readers :
        /\ InitOver
        /\ initResult = "nil"
        /\ appConf = <<BTCUSD, ETHBTC>>
        /\ response[r].kind = "all"
        /\ currencies[0] =
             [ ID |-> "BTC", FullName |-> "Bitcoin", Ask |-> "7906.72",
               Bid |-> "7906.28", Last |-> "7906.48", Open |-> "7952.3",
               Low |-> "7561.51", High |-> "8107.96", FeeCurrency |-> "USD" ]
        /\ currencies[1] =
             [ ID |-> "ETH", FullName |-> "Ethereum", Ask |-> "0.054464",
               Bid |-> "0.054463", Last |-> "0.054463", Open |-> "0.057133",
               Low |-> "0.053615", High |-> "0.057559", FeeCurrency |-> "BTC" ]

\* the streaming goroutine has applied every update it received
StreamQuiet == proc = "running" /\ streampc \in { "read", "returned" }

\* C12: when the streaming goroutine has applied every update it received,
\* the slot of each registered symbol holds the six quote fields of the last
\* update received for that symbol (stated for a server that initialized
\* without error, with no symbol configured twice)
C12_SlotHoldsLastEvent ==
    ( StreamQuiet /\ initResult = "nil" /\ NoDuplicate ) =>
        \A s \in DOMAIN symbolToIndex :
            QuoteOf(currencies[symbolToIndex[s]]) = lastEvent[s]

\* C13: there is one mutex per slot and none covering several slots, and a
\* context waiting for the mutex of a slot takes it as soon as that mutex is
\* free, whatever other slots' mutexes are held: the writer in
\* setCurrencyInfo, a reader in getSingleCurrency, a reader in getAllCurrencies
C13_PerSlotLocking ==
    proc = "running" =>
        /\ DOMAIN currencyInfoLock = DOMAIN currencies
        /\ \A i \in DOMAIN currencyInfoLock :
               currencyInfoLock[i] \in { Free, StreamCtx } \cup Readers
        /\ ( /\ streampc = "lock"
             /\ currencyIndex \in Slots
             /\ currencyInfoLock[currencyIndex] = Free ) => ENABLED SetLock
        /\ \A r \in Readers :
              /\ ( rpc[r] = "lock" /\ currencyInfoLock[rindex[r]] = Free )
                     => ENABLED GetSingleLock(r)
              /\ ( /\ rpc[r] = "allLock"
                   /\ rindex[r] \in Slots
                   /\ currencyInfoLock[rindex[r]] = Free )
                     => ENABLED GetAllLock(r)

\* the writer waits for slot 0, which is free, while a reader holds slot 1
C13_Witness ==
    \E r \in Readers :
        /\ Serving
        /\ initResult = "nil"
        /\ NumSlots = 2
        /\ streampc = "lock"
        /\ currencyIndex = 0
        /\ currencyInfoLock[0] = Free
        /\ currencyInfoLock[1] = r

\* C14: the process is past doConfig only when envconfig.Process succeeded
\* and filled in a non-empty symbol list; after a configuration error or with
\* an empty list it never connects, initializes or serves
C14_ConfigErrorFatal ==
    ( proc = "running" /\ mainpc # "doConfig" ) =>
        ( ~ configErr /\ Len(appConf) > 0 )

\* C15: when ReadMessage returns an error the streaming goroutine returns;
\* from then on, as long as the process runs, it stays returned, reads no
\* further message, the connection is not re-opened and currencies keeps its
\* values; a server that is serving still starts both handlers
C15_ReadFailureEndsIngestion ==
    /\ [][ ( /\ streampc = "read"
             /\ streampc' # "read"
             /\ connReadErr'
             /\ proc' = "running" ) => streampc' = "returned" ]_vars
    /\ [][ ( streampc = "returned" /\ proc' = "running" ) =>
              /\ streampc' = "returned"
              /\ connReadErr'
              /\ msgCount' = msgCount
              /\ message' = message
              /\ currencies' = currencies ]_vars
    /\ [] ( ( Serving /\ streampc = "returned" ) =>
              \A r \in Readers :
                  rpc[r] = "idle" =>
                      ENABLED GetSingleLookup(r) /\ ENABLED GetAllBegin(r) )

\* the loop has returned after applying an update, and a single-symbol
\* query is answered with the stored record
C15_Witness ==
    \E r \in Readers :
        /\ Serving
        /\ initResult = "nil"
        /\ streampc = "returned"
        /\ connReadErr
        /\ msgCount = 1
        /\ NumSlots = 1
        /\ QuoteOf(currencies[0]) = QuoteA
        /\ response[r].kind = "single"
        /\ response[r].record = currencies[0]

\* handler r is at its json.NewEncoder(w).Encode call
Sending(r) ==
    \/ rpc[r] = "encode"
    \/ rpc[r] = "allLock" /\ rindex[r] = NumSlots

\* C16: a handler that is about to serialize and send its response holds no
\* slot mutex: the mutex is released after the in-memory copy and before the
\* response is written (stated for a server that initialized without error)
C16_NoIOUnderGuard ==
    ( Serving /\ initResult = "nil" ) =>
        \A r \in Readers :
            Sending(r) => \A i \in Slots : currencyInfoLock[i] # r

\* C17: while main is inside initializeCurrencyInfo the streaming goroutine
\* has not been started, no subscribeTicker has been sent, no message has been
\* read by the loop and no handler runs, so main is the only reader of the
\* connection; and whenever one of those has begun, initializeCurrencyInfo
\* has returned
C17_InitBeforeStreaming ==
    /\ ( proc = "running" /\ mainpc \in { "doConfig", "connect", "init" } ) =>
           /\ initResult = "pending"
           /\ streampc = "notstarted"
           /\ subscribed = 0
           /\ msgCount = 0
           /\ message = NoMessage
           /\ \A r \in Readers : rpc[r] = "idle" /\ response[r] = NoResponse
    /\ ( \/ streampc # "notstarted"
         \/ subscribed > 0
         \/ msgCount > 0
         \/ \E r \in Readers : rpc[r] # "idle" ) =>
           /\ InitOver
           /\ initResult \in { "nil", "error" }

\* main is between the two exchanges of the second symbol
C17_Witness ==
    /\ proc = "running"
    /\ mainpc = "init"
    /\ appConf = DefaultSymbols
    /\ initI = 1
    /\ initStep = "getCurrency"
    /\ currencies[0].FullName = FullNameOf(BaseCurrencyOf(SymbolAt(0)))
    /\ currencies[1].ID = BaseCurrencyOf(SymbolAt(1))

\* C18: every index used on currencies and currencyInfoLock is a slot: the
\* index setCurrencyInfo is about to lock or is writing under, the index
\* getSingleCurrency locks and encodes, and the index getAllCurrencies locks
\* and copies
C18_IndexInRange ==
    proc = "running" =>
        /\ streampc \in { "lock" } \cup WritePcs => currencyIndex \in Slots
        /\ \A r \in Readers :
              rpc[r] \in { "lock", "encode", "unlock", "allCopy", "allUnlock" }
                  => rindex[r] \in Slots

\* C19: after initializeCurrencyInfo returned nil and before the streaming
\* loop has read a message, slot i holds the base currency and the fee
\* currency the upstream reports for Symbols[i], the full name it reports for
\* that base currency, and six empty quote fields
C19_InitialRecords ==
    ( proc = "running" /\ initResult = "nil" /\ msgCount = 0 ) =>
        \A i \in Slots :
            currencies[i] =
                [ ZeroCurrencyInfo EXCEPT
                    !.ID = BaseCurrencyOf(SymbolAt(i)),
                    !.FeeCurrency = FeeCurrencyOf(SymbolAt(i)),
                    !.FullName = FullNameOf(BaseCurrencyOf(SymbolAt(i))) ]

\* the server is serving two initialized slots and no message has been read
C19_Witness ==
    /\ Serving
    /\ initResult = "nil"
    /\ msgCount = 0
    /\ streampc = "read"
    /\ appConf = DefaultSymbols
    /\ currencies[0].ID = "BTC"
    /\ currencies[0].FeeCurrency = "USD"
    /\ currencies[1].ID = "ETH"
    /\ currencies[1].FullName = "Ethereum"

\* C20: for a symbol configured at positions i < j the map holds a position
\* not below j, so handlers and the writer use the later slot for that
\* symbol, and slot i, still present in the store, is never written by
\* setCurrencyInfo: the writer never holds its mutex and its quote fields
\* stay empty (stated for a server that initialized without error)
C20_DuplicateCollapses ==
    ( proc = "running" /\ initResult = "nil" ) =>
        \A i, j \in Slots :
            ( i < j /\ SymbolAt(i) = SymbolAt(j) ) =>
                /\ symbolToIndex[SymbolAt(i)] >= j
                /\ i \in DOMAIN currencies
                /\ currencyInfoLock[i] # StreamCtx
                /\ QuoteOf(currencies[i]) = ZeroQuote

\* C21: while setCurrencyInfo runs for a decoded message that carries no
\* params.symbol (a message that is not a ticker update, such as the reply
\* to subscribeTicker), no step changes currencies (stated for a serving
\* process that initialized without error, with no symbol configured twice)
C21_NonTickerLeavesStore ==
    [][ ( /\ Serving
          /\ initResult = "nil"
          /\ NoDuplicate
          /\ streampc \in WritePcs
          /\ tu.Symbol = ""
          /\ proc' = "running" ) => currencies' = currencies ]_vars

\* execution contexts that take slot mutexes
Contexts == { StreamCtx } \cup Readers

\* the slots whose mutex context c holds
Held(c) == { i \in Slots : currencyInfoLock[i] = c }

\* context c is at a Lock() call on a slot
Waiting(c) ==
    IF c = StreamCtx
    THEN streampc = "lock" /\ currencyIndex \in Slots
    ELSE rpc[c] \in { "lock", "allLock" } /\ rindex[c] \in Slots

\* the slot whose mutex context c is asking for
Wanted(c) == IF c = StreamCtx THEN currencyIndex ELSE rindex[c]

\* C22: each context holds at most one slot mutex, and only between its
\* Lock() and Unlock() on the slot it works on; a context at a Lock() call
\* holds no mutex; so the holder of a mutex someone waits for is itself not
\* waiting, and there is no cycle of waiting contexts
C22_GuardDiscipline ==
    proc = "running" =>
        /\ \A c \in Contexts : Cardinality(Held(c)) <= 1
        /\ \A i \in Slots : currencyInfoLock[i] \in { Free } \cup Contexts
        /\ \A i \in Slots :
              currencyInfoLock[i] = StreamCtx =>
                  streampc \in WritePcs /\ currencyIndex = i
        /\ \A r \in Readers : \A i \in Slots :
              currencyInfoLock[i] = r =>
                  /\ rpc[r] \in { "encode", "unlock", "allCopy", "allUnlock" }
                  /\ rindex[r] = i
        /\ \A c \in Contexts : Waiting(c) => Held(c) = {}
        /\ \A c \in Contexts :
              ( Waiting(c) /\ currencyInfoLock[Wanted(c)] # Free ) =>
                  ~ Waiting(currencyInfoLock[Wanted(c)])

\* the writer waits for the mutex of slot 1 while a getAllCurrencies reader
\* holds it
C22_Witness ==
    \E r \in Readers :
        /\ Serving
        /\ initResult = "nil"
        /\ NumSlots = 2
        /\ Waiting(StreamCtx)
        /\ Wanted(StreamCtx) = 1
        /\ rpc[r] = "allCopy"
        /\ Held(r) = { 1 }

====
